---- MODULE Spec2Model ----
(***************************************************************************)
(* A model of human-date-parser's resolver (src/src/lib.rs): the AST of    *)
(* src/src/ast.rs is resolved against a reference instant `now`.           *)
(* The calendar primitives of chrono that the resolver calls are modelled  *)
(* by what they compute (proleptic Gregorian calendar, checked ranges).    *)
(***************************************************************************)
EXTENDS Integers, Sequences, FiniteSets, TLC

(***************************************************************************)
(* Option and Result values.                                               *)
(***************************************************************************)
None == <<>>
Some(v) == <<v>>
IsSome(o) == Len(o) = 1
Unwrap(o) == o[1]

Ok(v) == [ok |-> TRUE, val |-> v]
Err(e) == [ok |-> FALSE, err |-> e]
\* A panic (an abort of the call): no value is returned to the caller.
Abort == [abort |-> TRUE]
IsAbort(r) == "abort" \in DOMAIN r
IsOk(r) == "ok" \in DOMAIN r /\ r.ok
IsErr(r) == "ok" \in DOMAIN r /\ ~r.ok

\* Option::ok_or
ok_or(o, e) == IF IsSome(o) THEN Ok(Unwrap(o)) ELSE Err(e)

(***************************************************************************)
(* Unsigned 32-bit numbers of the AST. The checker's integers are 32-bit   *)
(* signed, so a u32 is kept as two 16-bit limbs: value = hi * 2^16 + lo.   *)
(***************************************************************************)
Limb == 65536
I32Max == 2147483647
I32Min == -I32Max - 1

U32(hi, lo) == [hi |-> hi, lo |-> lo]
\* the u32 of a natural below 2^31
u(n) == U32(n \div Limb, n % Limb)
U32Max == U32(Limb - 1, Limb - 1)

\* true when the value is at most i32::MAX
FitsI32(x) == x.hi < Limb \div 2
\* the value, for a u32 that is at most i32::MAX
ToInt(x) == x.hi * Limb + x.lo
\* `x as i32`: the two's complement reinterpretation of the 32 bits
AsI32(x) == (IF x.hi >= Limb \div 2 THEN x.hi - Limb ELSE x.hi) * Limb + x.lo
\* x <= n, for a natural n below 2^31
U32Le(x, n) == FitsI32(x) /\ ToInt(x) <= n
\* floor(x / 8) and x mod 8 (the quotient always fits)
U32Div8(x) == x.hi * (Limb \div 8) + x.lo \div 8
U32Mod8(x) == x.lo % 8

\* i32 addition a + b: the exact sum when it fits, and whether it overflowed;
\* wrapped is the two's complement result of the overflowing sum.
I32AddOverflows(a, b) ==
  \/ (b > 0 /\ a > I32Max - b)
  \/ (b < 0 /\ a < I32Min - b)
I32AddWrapped(a, b) ==
  IF b > 0 /\ a > I32Max - b THEN (a - I32Max - 1) + (b + I32Min)
  ELSE IF b < 0 /\ a < I32Min - b THEN (a - I32Min) + (b + I32Max + 1)
  ELSE a + b

(***************************************************************************)
(* chrono: NaiveDate, NaiveTime, NaiveDateTime.                            *)
(***************************************************************************)
MIN_YEAR == -262143
MAX_YEAR == 262142

NaiveDateOf(y, m, d) == [year |-> y, month |-> m, day |-> d]
NaiveTimeOf(h, m, s) == [hour |-> h, minute |-> m, second |-> s]
\* NaiveDateTime::new
NaiveDateTimeNew(date, time) == [date |-> date, time |-> time]

IsLeapYear(y) == (y % 4 = 0 /\ y % 100 # 0) \/ y % 400 = 0
DaysInMonth(y, m) ==
  CASE m = 2 -> IF IsLeapYear(y) THEN 29 ELSE 28
    [] m \in {4, 6, 9, 11} -> 30
    [] OTHER -> 31

\* NaiveDate::from_ymd_opt with i32 year and naturals (below 2^31) month, day
from_ymd_int(year, month, day) ==
  IF /\ year >= MIN_YEAR /\ year <= MAX_YEAR
     /\ month >= 1 /\ month <= 12
     /\ day >= 1 /\ day <= DaysInMonth(year, month)
  THEN Some(NaiveDateOf(year, month, day))
  ELSE None

\* NaiveDate::from_ymd_opt(year: i32, month: u32, day: u32)
from_ymd_opt(year, month, day) ==
  IF U32Le(month, 12) /\ U32Le(day, 31)
  THEN from_ymd_int(year, ToInt(month), ToInt(day))
  ELSE None

\* Faulty variant of from_hms_opt: the upper ends of the ranges are let in
from_hms_opt_inclusive(hour, min, sec) ==
  IF U32Le(hour, 24) /\ U32Le(min, 60) /\ U32Le(sec, 60)
  THEN Some(NaiveTimeOf(ToInt(hour), ToInt(min), ToInt(sec)))
  ELSE None

\* NaiveTime::from_hms_opt(hour: u32, min: u32, sec: u32)
from_hms_opt(hour, min, sec) ==
  IF U32Le(hour, 23) /\ U32Le(min, 59) /\ U32Le(sec, 59)
  THEN Some(NaiveTimeOf(ToInt(hour), ToInt(min), ToInt(sec)))
  ELSE None

\* Days since 1970-01-01 of a date (proleptic Gregorian calendar): the year
\* is counted from March (y), in 400-year eras; mp is the month from March.
DayNumberOf(y, mp, day) ==
  (y \div 400) * 146097 + (y % 400) * 365 + (y % 400) \div 4 - (y % 400) \div 100
  + (153 * mp + 2) \div 5 + day - 1 - 719468
DayNumber(date) ==
  DayNumberOf(IF date.month <= 2 THEN date.year - 1 ELSE date.year,
              IF date.month > 2 THEN date.month - 3 ELSE date.month + 9,
              date.day)

\* The date of a day number: the era and day of era, then the year of era
\* (yoe), the day of the year from March (doy), the month from March (mp).
DateOfMarchMonth(y, doy, mp) ==
  NaiveDateOf(y + (IF mp >= 10 THEN 1 ELSE 0),
              IF mp < 10 THEN mp + 3 ELSE mp - 9,
              doy - (153 * mp + 2) \div 5 + 1)
DateOfMarchDay(y, doy) == DateOfMarchMonth(y, doy, (5 * doy + 2) \div 153)
DateOfYearOfEra(era, doe, yoe) ==
  DateOfMarchDay(yoe + era * 400, doe - (365 * yoe + yoe \div 4 - yoe \div 100))
DateOfEra(era, doe) ==
  DateOfYearOfEra(era, doe,
                  (doe - doe \div 1460 + doe \div 36524 - doe \div 146096) \div 365)
DateOfDayNumber(n) == DateOfEra((n + 719468) \div 146097, (n + 719468) % 146097)

MinDayNumber == DayNumber(NaiveDateOf(MIN_YEAR, 1, 1))
MaxDayNumber == DayNumber(NaiveDateOf(MAX_YEAR, 12, 31))

\* Datelike::weekday().num_days_from_monday(): 1970-01-01 was a Thursday
date_num_days_from_monday(date) == (DayNumber(date) + 3) % 7

\* Faulty variant of add_days_int: a date past the range becomes the last date
add_days_int_saturating(date, n) ==
  IF n <= MaxDayNumber - DayNumber(date)
  THEN Some(DateOfDayNumber(DayNumber(date) + n))
  ELSE Some(NaiveDateOf(MAX_YEAR, 12, 31))

\* NaiveDate::checked_add_days(Days::new(n)) for a natural n below 2^31
add_days_int(date, n) ==
  IF n <= MaxDayNumber - DayNumber(date)
  THEN Some(DateOfDayNumber(DayNumber(date) + n))
  ELSE None
\* NaiveDate::checked_sub_days(Days::new(n)) for a natural n below 2^31
sub_days_int(date, n) ==
  IF n <= DayNumber(date) - MinDayNumber
  THEN Some(DateOfDayNumber(DayNumber(date) - n))
  ELSE None

\* NaiveDate::diff_months(months: i32): the day is clamped to the last day of
\* the target month when that month is shorter.
ClampedDay(year, month, day) ==
  IF day > DaysInMonth(year, month) THEN DaysInMonth(year, month) ELSE day
MonthsToDate(total, day) ==
  from_ymd_int(total \div 12, (total % 12) + 1,
               ClampedDay(total \div 12, (total % 12) + 1, day))
diff_months(date, months) ==
  IF I32AddOverflows(date.year * 12 + date.month - 1, months) THEN None
  ELSE MonthsToDate(date.year * 12 + date.month - 1 + months, date.day)

\* NaiveDate::with_year(year: i32): same month and day in another year
date_with_year(date, year) == from_ymd_int(year, date.month, date.day)


\* i32 subtraction a - b, as I32AddOverflows / I32AddWrapped
I32SubOverflows(a, b) ==
  \/ (b < 0 /\ a > I32Max + b)
  \/ (b > 0 /\ a < I32Min + b)
I32SubWrapped(a, b) ==
  IF b < 0 /\ a > I32Max + b THEN (a - I32Max - 1) - (b + I32Max + 1)
  ELSE IF b > 0 /\ a < I32Min + b THEN (a - I32Min) - (b - I32Max - 1)
  ELSE a - b

\* Faulty variant of DaysNew: the factor is dropped (weeks counted as days)
DaysNew_unscaled(count, k) ==
  IF FitsI32(count) THEN Some(ToInt(count)) ELSE None

\* Days::new(count as u64 * k): the number of days when it is at most
\* i32::MAX; None stands for the larger values, which checked_add_days and
\* checked_sub_days reject.
DaysNew(count, k) ==
  IF FitsI32(count) /\ ToInt(count) <= I32Max \div k
  THEN Some(ToInt(count) * k)
  ELSE None

\* Some(NaiveDateTime { date, time }) of an Option<NaiveDate>
AndTime(date, time) ==
  IF IsSome(date) THEN Some(NaiveDateTimeNew(Unwrap(date), time)) ELSE None

\* NaiveDateTime::with_year
with_year(dt, year) == AndTime(date_with_year(dt.date, year), dt.time)

\* NaiveDateTime::checked_add_months(Months::new(months))
checked_add_months(dt, months) ==
  IF months = u(0) THEN Some(dt)
  ELSE IF ~FitsI32(months) THEN None
  ELSE AndTime(diff_months(dt.date, ToInt(months)), dt.time)

\* Faulty variant of checked_sub_months: the months are added
checked_sub_months_added(dt, months) ==
  IF months = u(0) THEN Some(dt)
  ELSE IF ~FitsI32(months) THEN None
  ELSE AndTime(diff_months(dt.date, ToInt(months)), dt.time)

\* NaiveDateTime::checked_sub_months(Months::new(months))
checked_sub_months(dt, months) ==
  IF months = u(0) THEN Some(dt)
  ELSE IF ~FitsI32(months) THEN None
  ELSE AndTime(diff_months(dt.date, -ToInt(months)), dt.time)

\* NaiveDateTime::checked_add_days(days), days as DaysNew gives them
checked_add_days(dt, days) ==
  IF ~IsSome(days) THEN None
  ELSE AndTime(add_days_int(dt.date, Unwrap(days)), dt.time)

\* NaiveDateTime::checked_sub_days(days)
checked_sub_days(dt, days) ==
  IF ~IsSome(days) THEN None
  ELSE AndTime(sub_days_int(dt.date, Unwrap(days)), dt.time)

SecondsOfDay(time) == time.hour * 3600 + time.minute * 60 + time.second
TimeOfSeconds(s) == NaiveTimeOf(s \div 3600, (s % 3600) \div 60, s % 60)

\* ChronoDuration::hours / minutes / seconds (count as i64), split into whole
\* days and the remaining seconds; unit_secs is 3600, 60 or 1.
DurationDays(count, unit_secs) == U32Div8(count) \div (10800 \div unit_secs)
DurationRest(count, unit_secs) ==
  ((U32Div8(count) % (10800 \div unit_secs)) * 8 + U32Mod8(count)) * unit_secs

\* NaiveDateTime::checked_add_signed(duration): None when the date leaves the
\* representable range.
\* The instant `secs` seconds (possibly negative or beyond a day) after the
\* start of day number `day`; None outside the representable range.
InstantAt(day, secs) ==
  IF day + secs \div 86400 > MaxDayNumber \/ day + secs \div 86400 < MinDayNumber
  THEN None
  ELSE Some(NaiveDateTimeNew(DateOfDayNumber(day + secs \div 86400),
                             TimeOfSeconds(secs % 86400)))

checked_add_signed(dt, count, unit_secs) ==
  InstantAt(DayNumber(dt.date) + DurationDays(count, unit_secs),
            SecondsOfDay(dt.time) + DurationRest(count, unit_secs))

\* NaiveDateTime::checked_sub_signed(duration)
checked_sub_signed(dt, count, unit_secs) ==
  InstantAt(DayNumber(dt.date) - DurationDays(count, unit_secs),
            SecondsOfDay(dt.time) - DurationRest(count, unit_secs))

\* Option::expect: a panic on None
expect(o) == IF IsSome(o) THEN Ok(Unwrap(o)) ELSE Abort

\* `dt + duration` and `dt - duration` (impl Add / Sub for NaiveDateTime):
\* checked_add_signed(..).expect(..), a panic when out of range
AddDuration(dt, count, unit_secs) == expect(checked_add_signed(dt, count, unit_secs))
SubDuration(dt, count, unit_secs) == expect(checked_sub_signed(dt, count, unit_secs))


(***************************************************************************)
(* The AST (src/src/ast.rs).                                               *)
(***************************************************************************)
RelativeSpecifier == {"This", "Next", "Last"}
Weekday == {"Monday", "Tuesday", "Wednesday", "Thursday", "Friday", "Saturday", "Sunday"}
TimeUnit == {"Year", "Month", "Week", "Day", "Hour", "Minute", "Second"}
MonthName == {"January", "February", "March", "April", "May", "June", "July",
              "August", "September", "October", "November", "December"}

\* Quantifier::Year(n) ... Quantifier::Second(n)
Quantifier(unit, n) == [unit |-> unit, n |-> n]

\* Date
Today == [d |-> "Today"]
Tomorrow == [d |-> "Tomorrow"]
Overmorrow == [d |-> "Overmorrow"]
Yesterday == [d |-> "Yesterday"]
IsoDate(year, month, day) == [d |-> "IsoDate", year |-> year, month |-> month, day |-> day]
DayMonthYear(day, month, year) == [d |-> "DayMonthYear", day |-> day, mname |-> month, year |-> year]
DayMonth(day, month) == [d |-> "DayMonth", day |-> day, mname |-> month]
RelativeWeekWeekday(relative, weekday) == [d |-> "RelativeWeekWeekday", relative |-> relative, weekday |-> weekday]
RelativeTimeUnit(relative, time_unit) == [d |-> "RelativeTimeUnit", relative |-> relative, time_unit |-> time_unit]
RelativeWeekday(relative, weekday) == [d |-> "RelativeWeekday", relative |-> relative, weekday |-> weekday]
UpcomingWeekday(weekday) == [d |-> "UpcomingWeekday", weekday |-> weekday]

\* Time
HourMinute(hour, minute) == [t |-> "HourMinute", hour |-> hour, minute |-> minute]
HourMinuteSecond(hour, minute, second) ==
  [t |-> "HourMinuteSecond", hour |-> hour, minute |-> minute, second |-> second]

\* HumanTime
HtDateTime(date, time) == [ht |-> "DateTime", date |-> date, time |-> time]
HtDate(date) == [ht |-> "Date", date |-> date]
HtTime(time) == [ht |-> "Time", time |-> time]
HtIn(duration) == [ht |-> "In", duration |-> duration]
\* Ago::AgoFromNow(duration)
HtAgoFromNow(duration) == [ht |-> "Ago", duration |-> duration, inner |-> None]
\* Ago::AgoFromTime(duration, Box<HumanTime>)
HtAgoFromTime(duration, time) == [ht |-> "Ago", duration |-> duration, inner |-> Some(time)]
HtNow == [ht |-> "Now"]

\* impl From<Weekday> for chrono::Weekday, then num_days_from_monday()
num_days_from_monday(weekday) ==
  CASE weekday = "Monday" -> 0
    [] weekday = "Tuesday" -> 1
    [] weekday = "Wednesday" -> 2
    [] weekday = "Thursday" -> 3
    [] weekday = "Friday" -> 4
    [] weekday = "Saturday" -> 5
    [] weekday = "Sunday" -> 6

\* chrono::Month::number_from_month
number_from_month(month) ==
  CASE month = "January" -> 1
    [] month = "February" -> 2
    [] month = "March" -> 3
    [] month = "April" -> 4
    [] month = "May" -> 5
    [] month = "June" -> 6
    [] month = "July" -> 7
    [] month = "August" -> 8
    [] month = "September" -> 9
    [] month = "October" -> 10
    [] month = "November" -> 11
    [] month = "December" -> 12

(***************************************************************************)
(* Results and errors (src/src/lib.rs).                                    *)
(***************************************************************************)
\* ParseResult
ResDateTime(dt) == [kind |-> "DateTime", v |-> dt]
ResDate(date) == [kind |-> "Date", v |-> date]
ResTime(time) == [kind |-> "Time", v |-> time]

\* ProcessingError
TimeHourMinute(hour, minute) == [e |-> "TimeHourMinute", hour |-> hour, minute |-> minute]
TimeHourMinuteSecond(hour, minute, second) ==
  [e |-> "TimeHourMinuteSecond", hour |-> hour, minute |-> minute, second |-> second]
AddToNow(unit, count) == [e |-> "AddToNow", unit |-> unit, count |-> count]
SubtractFromNow(unit, count) == [e |-> "SubtractFromNow", unit |-> unit, count |-> count]
SubtractFromDate(unit, count, date) ==
  [e |-> "SubtractFromDate", unit |-> unit, count |-> count, date |-> date]
AddToDate(unit, count, date) ==
  [e |-> "AddToDate", unit |-> unit, count |-> count, date |-> date]
InvalidDate(year, month, day) == [e |-> "InvalidDate", year |-> year, month |-> month, day |-> day]
InnerHumanTimeParse(parse_error) == [e |-> "InnerHumanTimeParse", inner |-> parse_error]

\* ParseError
InvalidFormat == [pe |-> "InvalidFormat"]
ProccessingErrors(errors) == [pe |-> "ProccessingErrors", errors |-> errors]
InternalError == [pe |-> "InternalError", internal |-> "FailedToBuildAst"]

\* Result::map and Result::map_err; a panic is neither
Map(r, F(_)) == IF IsOk(r) THEN Ok(F(r.val)) ELSE r
MapErr(r, F(_)) == IF IsErr(r) THEN Err(F(r.err)) ELSE r


(***************************************************************************)
(* State: one call of parse_human_time after another.                      *)
(***************************************************************************)
VARIABLES
  overflow_checks, \* TRUE in a build that panics on integer overflow (debug), FALSE when it wraps (release)
  now,             \* the reference instant of the current call
  ast,             \* the HumanTime being resolved, None before the first call
  result,          \* what the call returned (Ok / Err / Abort), None before the first call
  first,           \* the call before a round trip: [now, ast, result], else None
  text,            \* the input text of a call of from_human_time, else None
  pc               \* "ready" | "done" | "back" | "parsed"

vars == <<overflow_checks, now, ast, result, first, text, pc>>

(***************************************************************************)
(* The resolver (src/src/lib.rs).                                          *)
(***************************************************************************)
\* `a + b` / `a - b` on i32: a panic with overflow checks, else wrapping.
\* NoI32 marks the panic.
NoI32 == None
CheckedI32Add(a, b) ==
  IF I32AddOverflows(a, b) /\ overflow_checks THEN NoI32 ELSE Some(I32AddWrapped(a, b))
CheckedI32Sub(a, b) ==
  IF I32SubOverflows(a, b) /\ overflow_checks THEN NoI32 ELSE Some(I32SubWrapped(a, b))

\* NaiveDate::from_ymd_opt(year, month, day).ok_or(InvalidDate { year, month, day })
ymd_or_invalid(year, month, day) ==
  ok_or(from_ymd_opt(year, month, day), InvalidDate(year, month, day))

parse_iso_date(iso_date) ==
  ymd_or_invalid(AsI32(iso_date.year), iso_date.month, iso_date.day)

parse_day_month_year(day, month, year) ==
  ymd_or_invalid(year, u(number_from_month(month)), day)

parse_time(time) ==
  CASE time.t = "HourMinute" ->
         ok_or(from_hms_opt(time.hour, time.minute, u(0)),
               TimeHourMinute(time.hour, time.minute))
    [] time.t = "HourMinuteSecond" ->
         ok_or(from_hms_opt(time.hour, time.minute, time.second),
               TimeHourMinuteSecond(time.hour, time.minute, time.second))

\* Faulty variant of with_year_or_invalid: the error names the year of dt
with_year_or_invalid_old_year(dt, year) ==
  IF ~IsSome(year) THEN Abort
  ELSE ok_or(with_year(dt, Unwrap(year)),
             InvalidDate(dt.date.year, u(dt.date.month), u(dt.date.day)))

\* dt.with_year(year).ok_or(InvalidDate { year, month: dt.month(), day: dt.day() }),
\* year being dt.year() + years or dt.year() - years: a panic when that overflowed
with_year_or_invalid(dt, year) ==
  IF ~IsSome(year) THEN Abort
  ELSE ok_or(with_year(dt, Unwrap(year)),
             InvalidDate(Unwrap(year), u(dt.date.month), u(dt.date.day)))

\* One iteration of the loop of apply_duration: the match on the quantifier.
apply_quantifier(quant, dt, direction) ==
  CASE quant.unit = "Year" ->
         IF direction = "Forwards"
         THEN with_year_or_invalid(dt, CheckedI32Add(dt.date.year, AsI32(quant.n)))
         ELSE with_year_or_invalid(dt, CheckedI32Sub(dt.date.year, AsI32(quant.n)))
    [] quant.unit = "Month" ->
         IF direction = "Forwards"
         THEN ok_or(checked_add_months(dt, quant.n), AddToDate("months", quant.n, dt))
         ELSE ok_or(checked_sub_months(dt, quant.n), SubtractFromDate("months", quant.n, dt))
    [] quant.unit = "Week" ->
         IF direction = "Forwards"
         THEN ok_or(checked_add_days(dt, DaysNew(quant.n, 7)), AddToDate("weeks", quant.n, dt))
         ELSE ok_or(checked_sub_days(dt, DaysNew(quant.n, 7)), AddToDate("weeks", quant.n, dt))
    [] quant.unit = "Day" ->
         IF direction = "Forwards"
         THEN ok_or(checked_add_days(dt, DaysNew(quant.n, 1)), AddToDate("days", quant.n, dt))
         ELSE ok_or(checked_sub_days(dt, DaysNew(quant.n, 1)), AddToDate("days", quant.n, dt))
    [] quant.unit = "Hour" ->
         IF direction = "Forwards"
         THEN AddDuration(dt, quant.n, 3600) ELSE SubDuration(dt, quant.n, 3600)
    [] quant.unit = "Minute" ->
         IF direction = "Forwards"
         THEN AddDuration(dt, quant.n, 60) ELSE SubDuration(dt, quant.n, 60)
    [] quant.unit = "Second" ->
         IF direction = "Forwards"
         THEN AddDuration(dt, quant.n, 1) ELSE SubDuration(dt, quant.n, 1)

\* The loop of apply_duration: the quantifiers in order, `?` ending it at the
\* first failure.
RECURSIVE apply_duration(_, _, _)
\* Faulty variant of apply_rest: the loop is left after the first quantifier
apply_rest_stop(step, rest, direction) == step

apply_rest(step, rest, direction) ==
  IF IsOk(step) THEN apply_duration(rest, step.val, direction) ELSE step
apply_duration(duration, dt, direction) ==
  IF duration = <<>> THEN Ok(dt)
  ELSE apply_rest(apply_quantifier(Head(duration), dt, direction), Tail(duration), direction)

\* Faulty variant of relative_date_time_unit: Next and Last go the other way
relative_date_time_unit_swapped(relative, time_unit, now_dt) ==
  IF time_unit \in {"Hour", "Minute", "Second"} THEN Abort
  ELSE CASE relative = "This" -> Ok(now_dt)
         [] relative = "Next" ->
              apply_duration(<<Quantifier(time_unit, u(1))>>, now_dt, "Backwards")
         [] relative = "Last" ->
              apply_duration(<<Quantifier(time_unit, u(1))>>, now_dt, "Forwards")

relative_date_time_unit(relative, time_unit, now_dt) ==
  IF time_unit \in {"Hour", "Minute", "Second"} THEN Abort
  ELSE CASE relative = "This" -> Ok(now_dt)
         [] relative = "Next" ->
              apply_duration(<<Quantifier(time_unit, u(1))>>, now_dt, "Forwards")
         [] relative = "Last" ->
              apply_duration(<<Quantifier(time_unit, u(1))>>, now_dt, "Backwards")

\* now.checked_add_days(Days::new(offset)).ok_or(AddToNow { "days", offset })
add_days_to_now(now_date, offset) ==
  ok_or(add_days_int(now_date, offset), AddToNow("days", u(offset)))
\* now.checked_sub_days(Days::new(offset)).ok_or(SubtractFromNow { "days", offset })
sub_days_from_now(now_date, offset) ==
  ok_or(sub_days_int(now_date, offset), SubtractFromNow("days", u(offset)))

\* Faulty variant of find_weekday_offset: forward, the weekday of now counts as ahead
find_weekday_offset_today_ahead(relative, current_weekday, target_weekday, now_date) ==
  IF relative \in {"This", "Next"}
  THEN IF relative = "This" /\ current_weekday = target_weekday
       THEN Ok(now_date)
       ELSE add_days_to_now(now_date,
                            IF target_weekday >= current_weekday
                            THEN target_weekday - current_weekday
                            ELSE 7 - current_weekday + target_weekday)
  ELSE sub_days_from_now(now_date,
                         IF target_weekday >= current_weekday
                         THEN 7 + current_weekday - target_weekday
                         ELSE current_weekday - target_weekday)

\* Faulty variant of find_weekday_offset: backward, the weekday of now counts as past
find_weekday_offset_today_past(relative, current_weekday, target_weekday, now_date) ==
  IF relative \in {"This", "Next"}
  THEN IF relative = "This" /\ current_weekday = target_weekday
       THEN Ok(now_date)
       ELSE add_days_to_now(now_date,
                            IF target_weekday > current_weekday
                            THEN target_weekday - current_weekday
                            ELSE 7 - current_weekday + target_weekday)
  ELSE sub_days_from_now(now_date,
                         IF target_weekday > current_weekday
                         THEN 7 + current_weekday - target_weekday
                         ELSE current_weekday - target_weekday)

\* find_weekday_relative, given current_weekday and target_weekday as numbers
\* of days from Monday
find_weekday_offset(relative, current_weekday, target_weekday, now_date) ==
  IF relative \in {"This", "Next"}
  THEN IF relative = "This" /\ current_weekday = target_weekday
       THEN Ok(now_date)
       ELSE add_days_to_now(now_date,
                            IF target_weekday > current_weekday
                            THEN target_weekday - current_weekday
                            ELSE 7 - current_weekday + target_weekday)
  ELSE sub_days_from_now(now_date,
                         IF target_weekday >= current_weekday
                         THEN 7 + current_weekday - target_weekday
                         ELSE current_weekday - target_weekday)

find_weekday_relative(relative, weekday, now_date) ==
  find_weekday_offset(relative, date_num_days_from_monday(now_date),
                      num_days_from_monday(weekday), now_date)

\* The start of find_weekday_relative_week: now moved by offset days
week_start(now_date, offset) ==
  IF offset > 0
  THEN add_days_to_now(now_date, offset)
  ELSE sub_days_from_now(now_date, -offset)
\* Its end: `?` on the moved date, then the weekday in that week
weekday_of_week(monday, weekday) ==
  IF IsOk(monday) THEN find_weekday_relative("This", weekday, monday.val) ELSE monday

\* Faulty variant of find_weekday_relative_week: the week is counted from now, not
\* from the Monday of its week
find_weekday_relative_week_from_now(relative, weekday, now_date) ==
  weekday_of_week(
    week_start(now_date,
               (CASE relative = "This" -> 0
                  [] relative = "Next" -> 1
                  [] relative = "Last" -> -1) * 7),
    weekday)

find_weekday_relative_week(relative, weekday, now_date) ==
  weekday_of_week(
    week_start(now_date,
               -date_num_days_from_monday(now_date)
               + (CASE relative = "This" -> 0
                    [] relative = "Next" -> 1
                    [] relative = "Last" -> -1) * 7),
    weekday)

DateOf(dt) == dt.date

parse_date(date, now_dt) ==
  CASE date.d = "Today" -> Ok(now_dt.date)
    [] date.d = "Tomorrow" -> ok_or(add_days_int(now_dt.date, 1), AddToNow("days", u(1)))
    [] date.d = "Overmorrow" -> ok_or(add_days_int(now_dt.date, 2), AddToNow("days", u(2)))
    [] date.d = "Yesterday" -> ok_or(sub_days_int(now_dt.date, 1), SubtractFromNow("days", u(1)))
    [] date.d = "IsoDate" -> parse_iso_date(date)
    [] date.d = "DayMonthYear" -> parse_day_month_year(date.day, date.mname, AsI32(date.year))
    [] date.d = "DayMonth" -> parse_day_month_year(date.day, date.mname, now_dt.date.year)
    [] date.d = "RelativeWeekWeekday" ->
         find_weekday_relative_week(date.relative, date.weekday, now_dt.date)
    [] date.d = "RelativeWeekday" ->
         find_weekday_relative(date.relative, date.weekday, now_dt.date)
    [] date.d = "RelativeTimeUnit" ->
         Map(relative_date_time_unit(date.relative, date.time_unit, now_dt), DateOf)
    [] date.d = "UpcomingWeekday" ->
         find_weekday_relative("Next", date.weekday, now_dt.date)

\* Faulty variant of match_date_time: a failed date ends the resolution
match_date_time_first_only(date, time) ==
  IF IsAbort(date) THEN Abort
  ELSE CASE IsOk(date) /\ IsOk(time) -> Ok(NaiveDateTimeNew(date.val, time.val))
         [] IsOk(date) /\ IsErr(time) -> Err(ProccessingErrors(<<time.err>>))
         [] IsErr(date) -> Err(ProccessingErrors(<<date.err>>))

\* The match on (date, time) of parse_date_time
match_date_time(date, time) ==
  IF IsAbort(date) THEN Abort
  ELSE CASE IsOk(date) /\ IsOk(time) -> Ok(NaiveDateTimeNew(date.val, time.val))
         [] IsOk(date) /\ IsErr(time) -> Err(ProccessingErrors(<<time.err>>))
         [] IsErr(date) /\ IsOk(time) -> Err(ProccessingErrors(<<date.err>>))
         [] IsErr(date) /\ IsErr(time) -> Err(ProccessingErrors(<<date.err, time.err>>))

parse_date_time(date_time, now_dt) ==
  match_date_time(parse_date(date_time.date, now_dt), parse_time(date_time.time))

parse_in(in_ast, now_dt) == apply_duration(in_ast.duration, now_dt, "Forwards")

OneError(err) == ProccessingErrors(<<err>>)

\* Faulty variant of anchor_of: a date is taken at midnight
anchor_of_midnight(human_time, now_dt) ==
  CASE human_time.kind = "DateTime" -> human_time.v
    [] human_time.kind = "Date" -> NaiveDateTimeNew(human_time.v, NaiveTimeOf(0, 0, 0))
    [] human_time.kind = "Time" -> NaiveDateTimeNew(now_dt.date, human_time.v)

\* The match on the inner result in parse_ago: the instant the duration is
\* applied to
anchor_of(human_time, now_dt) ==
  CASE human_time.kind = "DateTime" -> human_time.v
    [] human_time.kind = "Date" -> NaiveDateTimeNew(human_time.v, now_dt.time)
    [] human_time.kind = "Time" -> NaiveDateTimeNew(now_dt.date, human_time.v)

\* parse_ago after the inner expression was resolved: `?`, the match, the duration
ago_from(human_time, duration, now_dt) ==
  IF ~IsOk(human_time) THEN human_time
  ELSE apply_duration(duration, anchor_of(human_time.val, now_dt), "Backwards")

RECURSIVE parse_human_time(_, _)
parse_ago(ago, now_dt) ==
  IF ~IsSome(ago.inner)
  THEN apply_duration(ago.duration, now_dt, "Backwards")
  ELSE ago_from(MapErr(parse_human_time(Unwrap(ago.inner), now_dt), InnerHumanTimeParse),
                ago.duration, now_dt)

parse_human_time(parsed, now_dt) ==
  CASE parsed.ht = "DateTime" -> Map(parse_date_time(parsed, now_dt), ResDateTime)
    [] parsed.ht = "Date" -> MapErr(Map(parse_date(parsed.date, now_dt), ResDate), OneError)
    [] parsed.ht = "Time" -> MapErr(Map(parse_time(parsed.time), ResTime), OneError)
    [] parsed.ht = "In" -> MapErr(Map(parse_in(parsed, now_dt), ResDateTime), OneError)
    [] parsed.ht = "Ago" -> MapErr(Map(parse_ago(parsed, now_dt), ResDateTime), OneError)
    [] parsed.ht = "Now" -> Ok(ResDateTime(now_dt))


(***************************************************************************)
(* From text to AST (src/src/ast.rs). A text is kept by its shape and the  *)
(* digit sequences in it: "in <digits> <unit>", "<digits> <unit> ago",     *)
(* "<digits>:<digits>", "now", or a text of no supported shape.            *)
(***************************************************************************)
TextIn(digits, unit) == [form |-> "in", digits |-> digits, unit |-> unit]
TextAgo(digits, unit) == [form |-> "ago", digits |-> digits, unit |-> unit]
TextTime(hour, minute) == [form |-> "time", hour |-> hour, minute |-> minute]
TextNow == [form |-> "now"]
TextOther == [form |-> "other"]

\* The grammar: the numeric rule matches any non-empty sequence of decimal
\* digits; a text of no supported shape is not matched.
NumRuleMatches(digits) == Len(digits) >= 1 /\ \A i \in 1..Len(digits) : digits[i] \in 0..9
GrammarMatches(t) ==
  CASE t.form \in {"in", "ago"} -> NumRuleMatches(t.digits) /\ t.unit \in TimeUnit
    [] t.form = "time" -> NumRuleMatches(t.hour) /\ NumRuleMatches(t.minute)
    [] t.form = "now" -> TRUE
    [] OTHER -> FALSE

\* u32 checked_mul(10) then checked_add(digit) of str::parse::<u32>
MulAdd10(x, digit) ==
  IF x.hi * 10 + (x.lo * 10 + digit) \div Limb >= Limb THEN None
  ELSE Some(U32(x.hi * 10 + (x.lo * 10 + digit) \div Limb, (x.lo * 10 + digit) % Limb))
\* the digits from the left, None once the value has overflowed
RECURSIVE ParseDigits(_, _)
ParseDigits(digits, acc) ==
  IF digits = <<>> \/ ~IsSome(acc) THEN acc
  ELSE ParseDigits(Tail(digits), MulAdd10(Unwrap(acc), Head(digits)))

\* DateTimeParser::Num: input.as_str().parse::<u32>().map_err(|e| input.error(e))
Num(digits) == ok_or(ParseDigits(digits, Some(u(0))), "number too large to fit in target type")

\* DateTimeParser::Quantifier, Duration and In / Ago over [Num(n), TimeUnit(u)]:
\* the error of Num is passed on
BuildQuantifier(n, unit, Build(_)) ==
  IF IsOk(n) THEN Ok(Build(<<Quantifier(unit, n.val)>>)) ELSE n
\* DateTimeParser::Time over [Num(h), Num(m)]
BuildTime(h, m) ==
  IF ~IsOk(h) THEN h ELSE IF ~IsOk(m) THEN m ELSE Ok(HtTime(HourMinute(h.val, m.val)))

\* DateTimeParser::HumanTime on the matched text
BuildHumanTime(t) ==
  CASE t.form = "in" -> BuildQuantifier(Num(t.digits), t.unit, HtIn)
    [] t.form = "ago" -> BuildQuantifier(Num(t.digits), t.unit, HtAgoFromNow)
    [] t.form = "time" -> BuildTime(Num(t.hour), Num(t.minute))
    [] t.form = "now" -> Ok(HtNow)

FailedToBuildAst(e) == InternalError
build_ast_from(str) ==
  IF ~GrammarMatches(str) THEN Err(InvalidFormat)
  ELSE MapErr(BuildHumanTime(str), FailedToBuildAst)

\* build_ast_from(&lowercase)? then parse_human_time(parsed, now)
resolve_built(parsed, now_dt) ==
  IF IsOk(parsed) THEN parse_human_time(parsed.val, now_dt) ELSE parsed
from_human_time(str, now_dt) == resolve_built(build_ast_from(str), now_dt)


(***************************************************************************)
(* Inputs of the calls.                                                    *)
(***************************************************************************)
DaySpan == 7    \* every anchor date is followed by this many consecutive days
MaxCount == 3   \* quantifier counts 0..MaxCount, besides the special counts
MaxDepth == 2   \* nesting depth of "ago at" expressions

Date20100101 == NaiveDateOf(2010, 1, 1)
Midnight == NaiveTimeOf(0, 0, 0)

AnchorDates ==
  { Date20100101, NaiveDateOf(2009, 3, 25), NaiveDateOf(2008, 2, 23),
    NaiveDateOf(2009, 12, 24) }
NowDates ==
  { DateOfDayNumber(DayNumber(a) + i) : a \in AnchorDates, i \in 0..DaySpan }
NowTimes == { Midnight, NaiveTimeOf(12, 34, 56), NaiveTimeOf(23, 59, 59) }
Nows == { NaiveDateTimeNew(d, t) : d \in NowDates, t \in NowTimes }
\* a few instants, for the expressions that read little or nothing of now
FewNows ==
  { NaiveDateTimeNew(d, t) : d \in AnchorDates, t \in {NaiveTimeOf(12, 34, 56)} }

YearInputs == { u(2012), u(2023), u(2100), U32(Limb \div 2, 0), U32Max }
MonthInputs == { u(n) : n \in 0..13 } \cup { U32Max }
DayInputs == { u(0), u(1), u(28), u(29), u(30), u(31), u(32), U32Max }
HourInputs == { u(0), u(15), u(23), u(24), U32Max }
MinuteInputs == { u(0), u(10), u(59), u(60), u(61), U32Max }

LiteralDates ==
  { IsoDate(y, m, d) : y \in YearInputs, m \in MonthInputs, d \in DayInputs }
  \cup { DayMonthYear(d, m, y) : d \in DayInputs, m \in MonthName, y \in YearInputs }
  \cup { DayMonth(d, m) : d \in DayInputs, m \in MonthName }
RelativeDates ==
  { Today, Tomorrow, Overmorrow, Yesterday }
  \cup { RelativeWeekWeekday(r, w) : r \in RelativeSpecifier, w \in Weekday }
  \cup { RelativeWeekday(r, w) : r \in RelativeSpecifier, w \in Weekday }
  \cup { RelativeTimeUnit(r, t) : r \in RelativeSpecifier, t \in {"Year", "Month", "Week", "Day"} }
  \cup { UpcomingWeekday(w) : w \in Weekday }
TimeInputs ==
  { HourMinute(h, m) : h \in HourInputs, m \in MinuteInputs }
  \cup { HourMinuteSecond(h, m, s) : h \in HourInputs, m \in MinuteInputs, s \in MinuteInputs }
\* the dates and times of the combined expressions
SomeDates ==
  { Today, Yesterday, IsoDate(u(2022), u(11), u(7)), IsoDate(u(2023), u(11), u(31)),
    IsoDate(u(2023), u(13), u(1)), DayMonth(u(29), "February"),
    RelativeWeekday("Last", "Friday"), RelativeTimeUnit("Last", "Month") }
SomeTimes ==
  { HourMinuteSecond(u(13), u(25), u(30)), HourMinute(u(19), u(45)),
    HourMinute(u(25), u(0)), HourMinute(u(12), u(61)),
    HourMinuteSecond(u(12), u(0), u(99)) }

Counts ==
  { u(n) : n \in 0..MaxCount }
  \cup { u(12), u(24), u(1440), u(86400), u(I32Max), U32(Limb \div 2, 0), U32Max }
SingleDurations == { <<Quantifier(unit, n)>> : unit \in TimeUnit, n \in Counts }
\* "1 year, 1 month, 1 week, 1 day, 1 hour, 1 minute and 1 second"
OneOfEach ==
  << Quantifier("Year", u(1)), Quantifier("Month", u(1)), Quantifier("Week", u(1)),
     Quantifier("Day", u(1)), Quantifier("Hour", u(1)), Quantifier("Minute", u(1)),
     Quantifier("Second", u(1)) >>
ListDurations ==
  { OneOfEach,
    << Quantifier("Minute", u(5)), Quantifier("Second", u(30)) >>,
    << Quantifier("Hour", u(10)), Quantifier("Minute", u(5)) >>,
    << Quantifier("Month", u(1)), Quantifier("Day", u(1)) >>,
    << Quantifier("Day", u(1)), Quantifier("Month", u(1)) >>,
    << Quantifier("Year", u(1)), Quantifier("Month", u(2)) >>,
    << Quantifier("Day", u(1)), Quantifier("Year", u(1)) >>,
    << Quantifier("Day", u(1)), Quantifier("Month", u(I32Max)) >>,
    << Quantifier("Day", u(1)), Quantifier("Hour", u(23)), Quantifier("Minute", u(59)) >> }
Durations == SingleDurations \cup ListDurations

\* the durations and inner expressions of "<duration> ago at <HumanTime>"
OuterDurations ==
  { <<Quantifier("Day", u(7))>>, <<Quantifier("Hour", u(12))>>, <<Quantifier("Month", u(1))>> }
FlatInner ==
  { HtDate(Today), HtDate(IsoDate(u(2023), u(11), u(31))), HtTime(HourMinute(u(4), u(0))),
    HtTime(HourMinute(u(25), u(0))), HtDateTime(Yesterday, HourMinute(u(18), u(30))),
    HtAgoFromNow(<<Quantifier("Day", u(7))>>), HtIn(<<Quantifier("Hour", u(2))>>), HtNow }
RECURSIVE InnerTimes(_)
InnerTimes(depth) ==
  IF depth <= 1 THEN FlatInner
  ELSE InnerTimes(depth - 1)
       \cup { HtAgoFromTime(d, i) : d \in OuterDurations, i \in InnerTimes(depth - 1) }

(***************************************************************************)
(* The calls.                                                              *)
(***************************************************************************)
Init ==
  /\ overflow_checks \in BOOLEAN
  /\ now = None
  /\ ast = None
  /\ result = None
  /\ first = None
  /\ text = None
  /\ pc = "ready"


\* parse_human_time(parsed, now_dt) is called and returns (or panics)
Ready == pc = "ready"

Call(parsed, now_dt) ==
  /\ now' = now_dt
  /\ ast' = parsed
  /\ result' = parse_human_time(parsed, now_dt)
  /\ pc' = "done"
  /\ UNCHANGED <<overflow_checks, first, text>>

ResolveNow == Ready /\ \E n \in Nows : Call(HtNow, n)

ResolveRelativeDate == Ready /\ \E n \in Nows, d \in RelativeDates : Call(HtDate(d), n)

ResolveLiteralDate == Ready /\ \E n \in FewNows, d \in LiteralDates : Call(HtDate(d), n)

ResolveTime == Ready /\ \E n \in FewNows, t \in TimeInputs : Call(HtTime(t), n)

ResolveDateTime ==
  Ready /\ \E n \in Nows, d \in SomeDates, t \in SomeTimes : Call(HtDateTime(d, t), n)

ResolveIn == Ready /\ \E n \in Nows, d \in Durations : Call(HtIn(d), n)

ResolveAgoFromNow == Ready /\ \E n \in Nows, d \in Durations : Call(HtAgoFromNow(d), n)

ResolveAgoFromTime ==
  Ready /\ \E n \in Nows, d \in OuterDurations, i \in InnerTimes(MaxDepth) :
    Call(HtAgoFromTime(d, i), n)

\* the digit sequences of the texts: 0, 007, 59, u32::MAX, u32::MAX + 1 and
\* an eleven-digit number
DigitSeqs ==
  { <<0>>, <<0, 0, 7>>, <<5, 9>>, <<4, 2, 9, 4, 9, 6, 7, 2, 9, 5>>,
    <<4, 2, 9, 4, 9, 6, 7, 2, 9, 6>>, <<9, 9, 9, 9, 9, 9, 9, 9, 9, 9, 9>> }
Texts ==
  { TextIn(d, unit) : d \in DigitSeqs \cup {<<>>}, unit \in TimeUnit }
  \cup { TextAgo(d, unit) : d \in DigitSeqs, unit \in TimeUnit }
  \cup { TextTime(h, m) : h \in DigitSeqs, m \in DigitSeqs }
  \cup { TextNow, TextOther }

\* from_human_time(str, now) is called and returns (or panics); ast is the
\* AST that was built, None when none was
FromHumanTime ==
  Ready /\ \E n \in FewNows, t \in Texts :
    /\ text' = Some(t)
    /\ now' = n
    /\ ast' = (IF IsOk(build_ast_from(t)) THEN Some(build_ast_from(t).val) ELSE None)
    /\ result' = from_human_time(t, n)
    /\ pc' = "parsed"
    /\ UNCHANGED <<overflow_checks, first>>

\* After "<duration> ago" returned the instant r, "in <duration>" is resolved
\* with r as the reference instant.
RoundTrip ==
  /\ pc = "done"
  /\ ast.ht = "Ago"
  /\ ~IsSome(ast.inner)
  /\ IsOk(result)
  /\ first' = [now |-> now, ast |-> ast, result |-> result]
  /\ now' = result.val.v
  /\ ast' = HtIn(ast.duration)
  /\ result' = parse_human_time(ast', now')
  /\ pc' = "back"
  /\ UNCHANGED <<overflow_checks, text>>

Next ==
  \/ ResolveNow
  \/ ResolveRelativeDate
  \/ ResolveLiteralDate
  \/ ResolveTime
  \/ ResolveDateTime
  \/ ResolveIn
  \/ ResolveAgoFromNow
  \/ ResolveAgoFromTime
  \/ RoundTrip
  \/ FromHumanTime

Spec == Init /\ [][Next]_vars


(***************************************************************************)
(* Calendar notions the claims are stated with.                            *)
(***************************************************************************)
Done == pc = "done"
IsDateCall(kinds) == Done /\ ast.ht = "Date" /\ ast.date.d \in kinds

\* The weekday of a day number: day 0, 1970-01-01, was a Thursday.
WeekdaysFromThursday ==
  <<"Thursday", "Friday", "Saturday", "Sunday", "Monday", "Tuesday", "Wednesday">>
WeekdayOfDay(n) == WeekdaysFromThursday[(n % 7) + 1]
\* the first day number from n on, resp. the last up to n, that falls on weekday w
FirstFrom(n, w) == CHOOSE k \in n..(n + 6) : WeekdayOfDay(k) = w
LastUpTo(n, w) == CHOOSE k \in (n - 6)..n : WeekdayOfDay(k) = w
\* the Monday of the Monday-to-Sunday week of day n
MondayOf(n) == LastUpTo(n, "Monday")
\* index(W): W's number of days from Monday
WeekdaysFromMonday ==
  <<"Monday", "Tuesday", "Wednesday", "Thursday", "Friday", "Saturday", "Sunday">>
IndexOf(w) == CHOOSE i \in 0..6 : WeekdaysFromMonday[i + 1] = w

\* the number of a month name, January being 1
MonthsFromJanuary ==
  <<"January", "February", "March", "April", "May", "June", "July", "August",
    "September", "October", "November", "December">>
IndexOfMonth(m) == CHOOSE i \in 1..12 : MonthsFromJanuary[i] = m

OkDate(n) == Ok(ResDate(DateOfDayNumber(n)))
Today_n == DayNumber(now.date)

\* (year, month, day) is a date of the calendar within the representable
\* years: counting the days to it and back gives the same date.
CalendarDateExists(y, m, d) ==
  /\ y >= MIN_YEAR /\ y <= MAX_YEAR
  /\ m >= 1 /\ m <= 12 /\ d >= 1 /\ d <= 31
  /\ DateOfDayNumber(DayNumber(NaiveDateOf(y, m, d))) = NaiveDateOf(y, m, d)

\* The year, month and day a literal date names: the numbers written in the
\* input (the year of now for DayMonth), a month name as its number.
LiteralKinds == {"IsoDate", "DayMonthYear", "DayMonth"}
WrittenYear == IF ast.date.d = "DayMonth" THEN u(now.date.year) ELSE ast.date.year
WrittenMonth ==
  IF ast.date.d = "IsoDate" THEN ast.date.month ELSE u(IndexOfMonth(ast.date.mname))
WrittenDay == ast.date.day
WrittenExists ==
  /\ FitsI32(WrittenYear) /\ FitsI32(WrittenMonth) /\ FitsI32(WrittenDay)
  /\ CalendarDateExists(ToInt(WrittenYear), ToInt(WrittenMonth), ToInt(WrittenDay))
IsInvalidDateError(r) ==
  /\ IsErr(r) /\ r.err.pe = "ProccessingErrors"
  /\ Len(r.err.errors) = 1 /\ r.err.errors[1].e = "InvalidDate"

\* C1: a literal date (IsoDate, DayMonthYear, DayMonth with the year of now)
\* resolves to exactly the date written when that date exists, and fails with
\* InvalidDate otherwise; never to another date.
C1_LiteralDateExactOrInvalid ==
  IsDateCall(LiteralKinds) =>
    IF WrittenExists
    THEN result = Ok(ResDate(NaiveDateOf(ToInt(WrittenYear), ToInt(WrittenMonth),
                                         ToInt(WrittenDay))))
    ELSE IsInvalidDateError(result)

\* C2: a bare weekday and "next <weekday>" resolve to the first date strictly
\* after the date of now that falls on the weekday (1 to 7 days ahead), and
\* "this <weekday>" to the first such date from the date of now on (0 to 6
\* days ahead).
C2_ForwardWeekday ==
  /\ IsDateCall({"UpcomingWeekday"}) =>
       result = OkDate(FirstFrom(Today_n + 1, ast.date.weekday))
  /\ (IsDateCall({"RelativeWeekday"}) /\ ast.date.relative = "Next") =>
       result = OkDate(FirstFrom(Today_n + 1, ast.date.weekday))
  /\ (IsDateCall({"RelativeWeekday"}) /\ ast.date.relative = "This") =>
       result = OkDate(FirstFrom(Today_n, ast.date.weekday))

\* now is a Friday, "friday" was resolved, and the result is a week later
C2_Witness ==
  /\ IsDateCall({"UpcomingWeekday"})
  /\ ast.date.weekday = "Friday" /\ WeekdayOfDay(Today_n) = "Friday"
  /\ result = OkDate(Today_n + 7)

\* C3: "last <weekday>" resolves to the last date strictly before the date of
\* now that falls on the weekday: 1 to 7 days back, 7 when now is on it.
C3_LastWeekday ==
  (IsDateCall({"RelativeWeekday"}) /\ ast.date.relative = "Last") =>
    /\ result = OkDate(LastUpTo(Today_n - 1, ast.date.weekday))
    /\ (WeekdayOfDay(Today_n) = ast.date.weekday => result = OkDate(Today_n - 7))

\* now is a Friday, "last friday" was resolved, and the result is a week before
C3_Witness ==
  /\ IsDateCall({"RelativeWeekday"}) /\ ast.date.relative = "Last"
  /\ ast.date.weekday = "Friday" /\ WeekdayOfDay(Today_n) = "Friday"
  /\ result = OkDate(Today_n - 7)


\* The week RelativeWeekWeekday selects, and the day the forward or backward
\* search of RelativeWeekday ends on.
IsWeekWeekdayCall == IsDateCall({"RelativeWeekWeekday"})
WeekShift == CASE ast.date.relative = "This" -> 0
               [] ast.date.relative = "Next" -> 1
               [] ast.date.relative = "Last" -> -1
WeekWeekdayDay == MondayOf(Today_n) + 7 * WeekShift + IndexOf(ast.date.weekday)
SearchDay == CASE ast.date.relative = "This" -> FirstFrom(Today_n, ast.date.weekday)
               [] ast.date.relative = "Next" -> FirstFrom(Today_n + 1, ast.date.weekday)
               [] ast.date.relative = "Last" -> LastUpTo(Today_n - 1, ast.date.weekday)
\* the search leaves the Monday-to-Sunday week of now
SearchCrossesWeek == MondayOf(SearchDay) # MondayOf(Today_n)

\* C4 (as claimed): RelativeWeekWeekday(spec, W) is monday(now) + 7k + index(W),
\* and differs from RelativeWeekday(spec, W) whenever the search of the latter
\* crosses a week boundary.
C4_DiffersWheneverSearchCrosses ==
  IsWeekWeekdayCall =>
    /\ result = OkDate(WeekWeekdayDay)
    /\ (SearchCrossesWeek => result # OkDate(SearchDay))

\* C4 (amended): RelativeWeekWeekday(spec, W) is monday(now) + 7k + index(W),
\* a day of the selected Monday-to-Sunday week; it differs from
\* RelativeWeekday(spec, W) exactly when, for This, the search crosses a week
\* boundary and, for Next and Last, when the search does not cross one.
C4_WeekWeekday ==
  IsWeekWeekdayCall =>
    /\ result = OkDate(WeekWeekdayDay)
    /\ MondayOf(WeekWeekdayDay) = MondayOf(Today_n) + 7 * WeekShift
    /\ (result # OkDate(SearchDay)) <=>
         (IF ast.date.relative = "This" THEN SearchCrossesWeek ELSE ~SearchCrossesWeek)

\* "next week monday" on a Friday: the search for "next monday" crosses the
\* week boundary and both give the same date
C4_Witness ==
  /\ IsWeekWeekdayCall /\ ast.date.relative = "Next" /\ ast.date.weekday = "Monday"
  /\ WeekdayOfDay(Today_n) = "Friday"
  /\ SearchCrossesWeek /\ result = OkDate(SearchDay) /\ result = OkDate(Today_n + 3)

\* "<duration> ago at <inner>"
IsAgoAtCall == Done /\ ast.ht = "Ago" /\ IsSome(ast.inner)
\* the inner expression resolved against the now of the call
InnerResolved == parse_human_time(Unwrap(ast.inner), now)
\* the anchor instant of an inner result
AnchorOf(r) ==
  IF r.kind = "DateTime" THEN r.v
  ELSE IF r.kind = "Date" THEN [date |-> r.v, time |-> now.time]
  ELSE [date |-> now.date, time |-> r.v]
\* the duration applied backward from an instant, as a result of the call
BackFrom(duration, dt) ==
  MapErr(Map(apply_duration(duration, dt, "Backwards"), ResDateTime), OneError)

\* C5: Ago with an inner expression resolves the inner expression against the
\* now of the call, takes the anchor from its result (a DateTime as it is, a
\* Date with the time of now, a Time with the date of now) and applies the
\* duration backward from the anchor; when the inner resolution fails the
\* call fails with one error that wraps the inner failure.
C5_AgoAtInner ==
  IsAgoAtCall =>
    IF IsOk(InnerResolved)
    THEN result = BackFrom(ast.duration, AnchorOf(InnerResolved.val))
    ELSE result = Err(ProccessingErrors(<<InnerHumanTimeParse(InnerResolved.err)>>))

\* "12 hours ago at 7 days ago at 04:00" with now = 2010-01-01T12:34:56: the
\* innermost time is joined to the date of now at both depths
C5_Witness ==
  /\ IsAgoAtCall
  /\ now = NaiveDateTimeNew(Date20100101, NaiveTimeOf(12, 34, 56))
  /\ ast.duration = <<Quantifier("Hour", u(12))>>
  /\ Unwrap(ast.inner) =
       HtAgoFromTime(<<Quantifier("Day", u(7))>>, HtTime(HourMinute(u(4), u(0))))
  /\ result = Ok(ResDateTime(NaiveDateTimeNew(NaiveDateOf(2009, 12, 24),
                                              NaiveTimeOf(16, 0, 0))))

\* a round trip of one quantifier: "<N U> ago" gave now, then "in <N U>"
IsRoundTrip == pc = "back" /\ Len(first.ast.duration) = 1
RoundTripUnit == first.ast.duration[1].unit

\* C6: after Ago(N U) against t succeeded with r, In(N U) against r returns
\* exactly t, unless U is Year or Month and the day-of-month of r is not the
\* day-of-month of t.
C6_RoundTrip ==
  IsRoundTrip =>
    \/ result = Ok(ResDateTime(first.now))
    \/ (RoundTripUnit \in {"Year", "Month"} /\ now.date.day # first.now.date.day)

\* a month was subtracted and added back, through another month
C6_Witness ==
  /\ IsRoundTrip /\ RoundTripUnit = "Month"
  /\ now.date.month # first.now.date.month
  /\ result = Ok(ResDateTime(first.now))

\* one Year or Month quantifier applied to now, forward or backward
IsOneQuantifierCall(units) ==
  /\ Done /\ ast.ht \in {"In", "Ago"}
  /\ (ast.ht = "Ago" => ~IsSome(ast.inner))
  /\ Len(ast.duration) = 1 /\ ast.duration[1].unit \in units

\* C7: applying a Year or Month quantifier returns an instant with the
\* day-of-month it was applied to, or fails with a processing error (a panic
\* is left aside here); it never returns a clamped day-of-month.
C7_SameDayOrError ==
  IsOneQuantifierCall({"Year", "Month"}) =>
    \/ IsAbort(result)
    \/ IsErr(result)
    \/ result.val.v.date.day = now.date.day

\* the failures of a sub-resolution, as a list
Failures(r) == IF IsErr(r) THEN <<r.err>> ELSE <<>>

\* C8: DateTime(date, time) returns the combined instant when both the date
\* and the time resolve, and otherwise the failures of both, the date's first.
C8_DateTimeCollectsErrors ==
  (Done /\ ast.ht = "DateTime") =>
    IF IsOk(parse_date(ast.date, now)) /\ IsOk(parse_time(ast.time))
    THEN result = Ok(ResDateTime([date |-> parse_date(ast.date, now).val,
                                  time |-> parse_time(ast.time).val]))
    ELSE /\ IsErr(result) /\ result.err.pe = "ProccessingErrors"
         /\ result.err.errors =
              Failures(parse_date(ast.date, now)) \o Failures(parse_time(ast.time))

\* an invalid date with an invalid time: both failures are reported
C8_Witness ==
  /\ Done /\ ast.ht = "DateTime"
  /\ IsErr(result) /\ Len(result.err.errors) = 2
  /\ result.err.errors[1].e = "InvalidDate"
  /\ result.err.errors[2].e = "TimeHourMinute"

\* x <= n for a u32 x and a small n
AtMost(x, n) == x.hi = 0 /\ x.lo <= n
TimeIsValid ==
  /\ AtMost(ast.time.hour, 23) /\ AtMost(ast.time.minute, 59)
  /\ (ast.time.t = "HourMinuteSecond" => AtMost(ast.time.second, 59))

\* C9: HourMinute(h, m) succeeds exactly when h <= 23 and m <= 59, giving
\* h:m:00, HourMinuteSecond(h, m, s) exactly when also s <= 59, giving h:m:s;
\* otherwise the error carries the h, m (and s) given; whatever now is.
C9_TimeValidOrError ==
  (Done /\ ast.ht = "Time") =>
    IF ast.time.t = "HourMinute"
    THEN IF TimeIsValid
         THEN result = Ok(ResTime([hour |-> ast.time.hour.lo,
                                   minute |-> ast.time.minute.lo, second |-> 0]))
         ELSE result = Err(ProccessingErrors(
                <<[e |-> "TimeHourMinute", hour |-> ast.time.hour,
                   minute |-> ast.time.minute]>>))
    ELSE IF TimeIsValid
         THEN result = Ok(ResTime([hour |-> ast.time.hour.lo,
                                   minute |-> ast.time.minute.lo,
                                   second |-> ast.time.second.lo]))
         ELSE result = Err(ProccessingErrors(
                <<[e |-> "TimeHourMinuteSecond", hour |-> ast.time.hour,
                   minute |-> ast.time.minute, second |-> ast.time.second]>>))

\* 23:59 succeeds and 24:00 fails
C9_Witness ==
  /\ Done /\ ast.ht = "Time" /\ ast.time.t = "HourMinute"
  /\ ast.time.hour = u(24) /\ ast.time.minute = u(0)
  /\ IsErr(result) /\ result.err.errors[1].e = "TimeHourMinute"

\* "1 year, 1 month, 1 week, 1 day, 1 hour, 1 minute and 1 second ago" with
\* now = 2010-01-01T00:00:00
IsOneOfEachAgo ==
  /\ Done /\ ast = HtAgoFromNow(OneOfEach)
  /\ now = NaiveDateTimeNew(Date20100101, Midnight)

\* C10 (as claimed): the result is 2008-11-23T22:58:59.
C10_Gives20081123 ==
  IsOneOfEachAgo =>
    result = Ok(ResDateTime(NaiveDateTimeNew(NaiveDateOf(2008, 11, 23),
                                             NaiveTimeOf(22, 58, 59))))

\* C10 (amended): the result is 2008-11-22T22:58:59.
C10_Gives20081122 ==
  IsOneOfEachAgo =>
    result = Ok(ResDateTime(NaiveDateTimeNew(NaiveDateOf(2008, 11, 22),
                                             NaiveTimeOf(22, 58, 59))))

\* that call has returned an instant
C10_Witness == IsOneOfEachAgo /\ IsOk(result) /\ result.val.kind = "DateTime"

\* a call has returned (or panicked)
Returned == pc \in {"done", "back", "parsed"}

\* C11: every resolution returns a value, a result or an error; it never ends
\* in a panic, also not when an Hour, Minute or Second count moves the instant
\* out of the representable range or the year arithmetic overflows.
C11_NeverAborts == Returned => ~IsAbort(result)

\* the count of the one quantifier, its length in days, and whether now moved
\* by that many of them is a date of the representable range
OneCount == ast.duration[1].n
OneUnitDays == IF ast.duration[1].unit = "Week" THEN 7 ELSE 1
MovedDayInRange ==
  /\ FitsI32(OneCount)
  /\ ToInt(OneCount) <= (IF ast.ht = "In" THEN MaxDayNumber - Today_n
                         ELSE Today_n - MinDayNumber) \div OneUnitDays
MovedDay ==
  IF ast.ht = "In" THEN Today_n + ToInt(OneCount) * OneUnitDays
  ELSE Today_n - ToInt(OneCount) * OneUnitDays

\* C12 (as claimed): applying a Week, Day, Hour, Minute or Second quantifier
\* always returns a result.
C12_NeverFails ==
  IsOneQuantifierCall({"Week", "Day", "Hour", "Minute", "Second"}) => IsOk(result)

\* C12 (amended): a Week or Day quantifier returns the instant moved by
\* 7 * count or count days, the time of day unchanged, when that date is within
\* the representable range, and a processing error otherwise; an Hour, Minute
\* or Second quantifier never returns a processing error.
C12_WeekDayFailOutOfRange ==
  /\ IsOneQuantifierCall({"Week", "Day"}) =>
       IF MovedDayInRange
       THEN result = Ok(ResDateTime(NaiveDateTimeNew(DateOfDayNumber(MovedDay), now.time)))
       ELSE IsErr(result) /\ Len(result.err.errors) = 1
  /\ IsOneQuantifierCall({"Hour", "Minute", "Second"}) => ~IsErr(result)

\* "in 2147483647 days": the count is a number of days chrono accepts, the
\* date is out of range, and a processing error is returned
C12_Witness ==
  /\ IsOneQuantifierCall({"Day"}) /\ ast.ht = "In"
  /\ OneCount = u(I32Max) /\ ~MovedDayInRange
  /\ IsErr(result) /\ result.err.errors[1].unit = "days"

\* C13: from_human_time never returns the internal error: every text ends in
\* a result, InvalidFormat or processing errors, also a text the grammar
\* matches whose digits do not fit the numeric type.
C13_NoInternalError ==
  pc = "parsed" => ~(IsErr(result) /\ result.err.pe = "InternalError")

\* the date of the instant a duration application returned, as the result of
\* a call; its failure as the one processing error of the call
DateOfApplied(r) ==
  IF IsOk(r) THEN Ok(ResDate(r.val.date))
  ELSE IF IsErr(r) THEN Err(ProccessingErrors(<<r.err>>))
  ELSE r
OneUnit(unit, direction) == apply_duration(<<Quantifier(unit, u(1))>>, now, direction)

\* C14: RelativeTimeUnit(spec, unit), unit being Year, Month, Week or Day,
\* resolves to a date only: the date of now for This, the date of now moved by
\* one unit forward for Next and backward for Last, the unit applied as a
\* duration of that one quantifier is ("next week" is 7 days after the date of
\* now, "last week" 7 days before, "next day" and "last day" one day), and it
\* fails when that application fails.
C14_RelativeTimeUnit ==
  IsDateCall({"RelativeTimeUnit"}) =>
    /\ IsOk(result) => result.val.kind = "Date"
    /\ ast.date.relative = "This" => result = Ok(ResDate(now.date))
    /\ ast.date.relative = "Next" =>
         result = DateOfApplied(OneUnit(ast.date.time_unit, "Forwards"))
    /\ ast.date.relative = "Last" =>
         result = DateOfApplied(OneUnit(ast.date.time_unit, "Backwards"))
    /\ (ast.date.relative = "Next" /\ ast.date.time_unit = "Week") =>
         result = OkDate(Today_n + 7)
    /\ (ast.date.relative = "Last" /\ ast.date.time_unit = "Week") =>
         result = OkDate(Today_n - 7)
    /\ (ast.date.relative = "Next" /\ ast.date.time_unit = "Day") =>
         result = OkDate(Today_n + 1)
    /\ (ast.date.relative = "Last" /\ ast.date.time_unit = "Day") =>
         result = OkDate(Today_n - 1)
    /\ (ast.date.relative = "Next" /\ ast.date.time_unit = "Year" /\ IsOk(result)) =>
         result = Ok(ResDate(NaiveDateOf(now.date.year + 1, now.date.month, now.date.day)))
    /\ (ast.date.relative = "Last" /\ ast.date.time_unit = "Year" /\ IsOk(result)) =>
         result = Ok(ResDate(NaiveDateOf(now.date.year - 1, now.date.month, now.date.day)))

\* "next year" on 2008-02-29: one year forward fails, and so does the call
C14_Witness ==
  /\ IsDateCall({"RelativeTimeUnit"})
  /\ ast.date.relative = "Next" /\ ast.date.time_unit = "Year"
  /\ now.date = NaiveDateOf(2008, 2, 29)
  /\ IsErr(OneUnit("Year", "Forwards"))
  /\ IsInvalidDateError(result)

\* the instant a is not later than the instant b
NotLater(a, b) ==
  \/ DayNumber(a.date) < DayNumber(b.date)
  \/ /\ DayNumber(a.date) = DayNumber(b.date)
     /\ SecondsOfDay(a.time) <= SecondsOfDay(b.time)
\* the instant an Ago duration is applied to: now, or the anchor of the inner
\* result
AgoAnchor == IF IsSome(ast.inner) THEN AnchorOf(InnerResolved.val) ELSE now

\* C15: a successful In(duration) returns an instant not earlier than now, a
\* successful Ago(duration) one not later than its anchor, whatever the
\* counts; a Year quantifier of count N that succeeds moves the year by
\* exactly N, forward for In and backward for Ago.
C15_DirectionRespected ==
  /\ (Done /\ ast.ht = "In" /\ IsOk(result)) => NotLater(now, result.val.v)
  /\ (Done /\ ast.ht = "Ago" /\ IsOk(result)) => NotLater(result.val.v, AgoAnchor)
  /\ (IsOneQuantifierCall({"Year"}) /\ IsOk(result)) =>
       /\ FitsI32(OneCount)
       /\ result.val.v.date.year =
            (IF ast.ht = "In" THEN now.date.year + ToInt(OneCount)
             ELSE now.date.year - ToInt(OneCount))

\* Reorderings of a duration: the reversal, the rotations and the swaps of two
\* neighbours (every permutation, for up to three quantifiers).
Reverse(d) == [i \in 1..Len(d) |-> d[Len(d) + 1 - i]]
Rotate(d, k) == [i \in 1..Len(d) |-> d[((i + k - 1) % Len(d)) + 1]]
SwapAt(d, k) ==
  [i \in 1..Len(d) |-> IF i = k THEN d[k + 1] ELSE IF i = k + 1 THEN d[k] ELSE d[i]]
Reorderings(d) ==
  {Reverse(d)} \cup { Rotate(d, k) : k \in 1..(Len(d) - 1) }
  \cup { SwapAt(d, k) : k \in 1..(Len(d) - 1) }

\* No step of the application fails, and no Year or Month step changes the
\* day-of-month.
RECURSIVE StepsKeepDay(_, _, _)
StepKeepsDay(quant, dt, step, rest, direction) ==
  /\ IsOk(step)
  /\ quant.unit \in {"Year", "Month"} => step.val.date.day = dt.date.day
  /\ StepsKeepDay(rest, step.val, direction)
StepsKeepDay(duration, dt, direction) ==
  \/ duration = <<>>
  \/ StepKeepsDay(Head(duration), dt, apply_quantifier(Head(duration), dt, direction),
                  Tail(duration), direction)

\* In(duration) or Ago(duration) against now, and its direction
IsDurationCall == Done /\ ast.ht \in {"In", "Ago"} /\ (ast.ht = "Ago" => ~IsSome(ast.inner))
CallDirection == IF ast.ht = "In" THEN "Forwards" ELSE "Backwards"
\* the result of the call, had the duration been d
Applied(d) == MapErr(Map(apply_duration(d, now, CallDirection), ResDateTime), OneError)
\* the units are all of a fixed length, or all Year or Month
UnitsOf(d) == { d[i].unit : i \in 1..Len(d) }
Unmixed(d) ==
  \/ UnitsOf(d) \subseteq {"Week", "Day", "Hour", "Minute", "Second"}
  \/ UnitsOf(d) \subseteq {"Year", "Month"}

\* C16 (as claimed): reordering the quantifiers of a duration gives the same
\* instant, provided that in neither order a step fails or a Year or Month
\* step changes the day-of-month.
C16_OrderHasNoEffect ==
  IsDurationCall =>
    \A p \in Reorderings(ast.duration) :
      (StepsKeepDay(ast.duration, now, CallDirection) /\ StepsKeepDay(p, now, CallDirection))
        => result = Applied(p)

\* C16 (amended): the same, for a duration whose units are all among Week, Day,
\* Hour, Minute and Second, or all among Year and Month.
C16_OrderHasNoEffectUnmixed ==
  (IsDurationCall /\ Unmixed(ast.duration)) =>
    \A p \in Reorderings(ast.duration) :
      (StepsKeepDay(ast.duration, now, CallDirection) /\ StepsKeepDay(p, now, CallDirection))
        => result = Applied(p)

\* "in 1 day, 23 hours and 59 minutes" one second before midnight: the steps
\* cross midnight at different places in the two orders, with the same result
C16_Witness ==
  /\ IsDurationCall /\ ast.ht = "In"
  /\ ast.duration =
       << Quantifier("Day", u(1)), Quantifier("Hour", u(23)), Quantifier("Minute", u(59)) >>
  /\ now.time = NaiveTimeOf(23, 59, 59)
  /\ IsOk(result) /\ result = Applied(Reverse(ast.duration))
  /\ result.val.v =
       NaiveDateTimeNew(DateOfDayNumber(Today_n + 2), NaiveTimeOf(23, 58, 59))

\* The first step of a duration application that does not return an instant:
\* its quantifier, the instant it was applied to and what it returned; None
\* when every step returns one.
RECURSIVE FirstFailure(_, _, _)
FailureOrNext(quant, dt, step, rest, direction) ==
  IF IsOk(step) THEN FirstFailure(rest, step.val, direction)
  ELSE Some([quant |-> quant, dt |-> dt, step |-> step])
FirstFailure(duration, dt, direction) ==
  IF duration = <<>> THEN None
  ELSE FailureOrNext(Head(duration), dt, apply_quantifier(Head(duration), dt, direction),
                     Tail(duration), direction)
\* of the call
Failed == Unwrap(FirstFailure(ast.duration, now, CallDirection))
IsFailedCall(units) ==
  /\ IsDurationCall /\ IsSome(FirstFailure(ast.duration, now, CallDirection))
  /\ Failed.quant.unit \in units /\ IsErr(Failed.step)
TheError == result.err.errors[1]
NamesUnitCountInstant(unit) ==
  /\ {"unit", "count", "date"} \subseteq DOMAIN TheError
  /\ TheError.unit = unit /\ TheError.count = Failed.quant.n /\ TheError.date = Failed.dt

\* the count of the failed Year step and the year it leads to are within i32
YearSumFits ==
  /\ FitsI32(Failed.quant.n)
  /\ IF ast.ht = "In"
     THEN Failed.dt.date.year <= I32Max - ToInt(Failed.quant.n)
     ELSE Failed.dt.date.year >= I32Min + ToInt(Failed.quant.n)

\* C17 (as claimed): when a Year or Month step fails the call fails with one
\* error and no result, and the error names the unit, the count and the
\* instant the quantifier was being applied to.
C17_ErrorNamesUnitCountInstant ==
  IsFailedCall({"Year", "Month"}) =>
    /\ IsErr(result) /\ Len(result.err.errors) = 1
    /\ NamesUnitCountInstant(IF Failed.quant.unit = "Year" THEN "years" ELSE "months")

\* C17 (amended): when a Year or Month step fails the call fails with one
\* error and no result; the error of a Month step names "months", the count
\* and the instant the quantifier was being applied to, and the error of a
\* Year step is InvalidDate with the month and day of that instant and the
\* year that was computed (its year plus or minus the count, when the count
\* and that sum fit a signed 32-bit number), naming neither the unit nor the
\* count.
C17_MonthNamesYearInvalidDate ==
  IsFailedCall({"Year", "Month"}) =>
    /\ IsErr(result) /\ Len(result.err.errors) = 1
    /\ Failed.quant.unit = "Month" =>
         /\ NamesUnitCountInstant("months")
         /\ TheError.e = (IF ast.ht = "In" THEN "AddToDate" ELSE "SubtractFromDate")
    /\ Failed.quant.unit = "Year" =>
         /\ TheError.e = "InvalidDate"
         /\ DOMAIN TheError = {"e", "year", "month", "day"}
         /\ TheError.month = u(Failed.dt.date.month)
         /\ TheError.day = u(Failed.dt.date.day)
         /\ YearSumFits =>
              TheError.year = (IF ast.ht = "In"
                               THEN Failed.dt.date.year + ToInt(Failed.quant.n)
                               ELSE Failed.dt.date.year - ToInt(Failed.quant.n))

\* "in 1 day and 1 year" on 2008-02-28: the day is added, the year then fails
\* on 2008-02-29, and the error is InvalidDate 2009-2-29
C17_Witness ==
  /\ IsFailedCall({"Year"}) /\ ast.ht = "In" /\ Len(ast.duration) = 2
  /\ now.date = NaiveDateOf(2008, 2, 28)
  /\ Failed.dt.date = NaiveDateOf(2008, 2, 29)
  /\ TheError = InvalidDate(2009, u(2), u(29))

\* RelativeTimeUnit with Next or Last of a Month, Week or Day has failed
IsFailedRelativeUnit(relative) ==
  /\ IsDateCall({"RelativeTimeUnit"}) /\ ast.date.relative = relative
  /\ ast.date.time_unit \in {"Month", "Week", "Day"} /\ IsErr(result)

\* C18: the kind of a duration failure matches the direction: when a Month,
\* Week or Day step fails, a backward application (Ago, RelativeTimeUnit with
\* Last) reports SubtractFromDate and a forward one (In, RelativeTimeUnit with
\* Next) AddToDate; a backward Week or Day failure is never AddToDate. (The
\* failure of a Year step, InvalidDate in either direction, is C17's.)
C18_ErrorKindMatchesDirection ==
  /\ IsFailedCall({"Month", "Week", "Day"}) =>
       TheError.e = (IF ast.ht = "In" THEN "AddToDate" ELSE "SubtractFromDate")
  /\ IsFailedRelativeUnit("Next") => TheError.e = "AddToDate"
  /\ IsFailedRelativeUnit("Last") => TheError.e = "SubtractFromDate"
  /\ (IsFailedCall({"Week", "Day"}) /\ ast.ht = "Ago") => TheError.e # "AddToDate"

====
